---------------------------- MODULE Spec2Model ----------------------------
(***************************************************************************)
(* Verification model of green_power_backend's telemetry ingestion core:   *)
(*   - solar/tcp_socket_server/server.py  (TCPSocketServer)                *)
(*   - mqtt_broker/subscriber.py          (MQTTSubscriber)                 *)
(* The two programs are separate processes: SpecTcp is the socket server,  *)
(* SpecBus and SpecIngest are the subscriber, SpecDecode the pure decoder.  *)
(***************************************************************************)
EXTENDS Integers, Sequences, FiniteSets, TLC

(***************************************************************************)
(* Bounds of the model                                                     *)
(***************************************************************************)
\* longest run of hex characters that follows the marker in a decoder input
MaxTail == 35
\* number of TCP connections the listener accepts
NConns == 2
\* total number of pulls of the response cycle
MaxPulls == 4
\* total number of messages the bus delivers to _on_message
MaxMsgs == 3
\* number of backoff sleeps of the reconnect loop since the delay was reset
MaxSleeps == 8
\* capacity of the message queue (QUEUE_MAX_SIZE is 1000 in the source; the
\* model runs with a small queue so that it fills)
QUEUE_MAX_SIZE == 2

(***************************************************************************)
(* Hex strings are sequences of one-character strings.                     *)
(***************************************************************************)
HexDigits == {"0", "1", "2", "3", "4", "5", "6", "7", "8", "9",
              "A", "B", "C", "D", "E", "F"}

\* the function-code marker searched for by _process_response
MARKER == <<"0", "1", "0", "3">>

\* s[a:b] of Python for 0-based a, b with 0 <= a
Slice(s, a, b) == SubSeq(s, a + 1, IF b < Len(s) THEN b ELSE Len(s))

\* s.find(m): 0-based offset of the first occurrence of m in s, or -1
FindFirst(s, m) ==
    LET hits == {i \in 0..(Len(s) - Len(m)) : Slice(s, i, i + Len(m)) = m}
    IN  IF hits = {} THEN -1
        ELSE CHOOSE i \in hits : \A j \in hits : i <= j

\* bytes.fromhex(chunk) succeeds
IsHex(chunk) == \A k \in 1..Len(chunk) : chunk[k] \in HexDigits

\* every slot is cut into chunks of 8 hex characters
ChunkSizeEight(index) == 8

\* chunk size in hex characters for a slot index
ChunkSize(index) == IF index = 2 THEN 16 ELSE 8

\* float(struct.unpack('!f' | '!q', bytes.fromhex(chunk))[0]): the number is
\* determined by the unpack format and the bytes; it is kept in that form
Unpack(chunk_size, chunk) ==
    [fmt |-> IF chunk_size = 8 THEN "!f" ELSE "!q", hex |-> chunk]

\* the list comprehension building chunks, and the loop that converts them,
\* skipping a chunk whose conversion raises
RECURSIVE ConvertChunks(_, _, _)
ConvertChunks(payload, chunk_size, i) ==
    IF i >= Len(payload) THEN <<>>
    ELSE LET chunk == Slice(payload, i, i + chunk_size)
             rest  == ConvertChunks(payload, chunk_size, i + chunk_size)
         IN  IF IsHex(chunk) THEN <<Unpack(chunk_size, chunk)>> \o rest
             ELSE rest

\* hex_response.split("0103", 1)[1]
AfterMarker(hex_response) ==
    Slice(hex_response, FindFirst(hex_response, MARKER) + Len(MARKER),
          Len(hex_response))

\* payload = payload[2:]
StripResidue(payload) == Slice(payload, 2, Len(payload))

\* TCPSocketServer._process_response
ProcessResponse(index, hex_response) ==
    IF FindFirst(hex_response, MARKER) = -1 THEN <<>>
    ELSE LET payload    == StripResidue(AfterMarker(hex_response))
             chunk_size == ChunkSize(index)
         IN  IF Len(payload) % chunk_size # 0 THEN <<>>
             ELSE ConvertChunks(payload, chunk_size, 0)


(***************************************************************************)
(* State                                                                   *)
(***************************************************************************)
\* the TCP socket server
VARIABLES
    pc,                \* position of each connection's handle_client thread
    index,             \* handle_client local: index of the pulled frame
    accumulated_data,  \* handle_client local: the Device Session
    cycle_pos,         \* position of self.response_cycle
    cycle_lock,        \* holder of self.cycle_lock (0: free)
    mongo_lock,        \* holder of self.mongo_lock (0: free)
    collections,       \* documents inserted into each of self.collections
    document,          \* _store_data local: the document being written
    wire,              \* frames sent to each client and not yet answered
    pulls,             \* history: indices returned by next(), in order
    trips,             \* history: per connection, number of replies processed
    oks,               \* history: per connection, replies that decoded non-empty
    storeCalls,        \* history: the sessions _store_data set out to write
    persisted,         \* history: documents written since the session was reset
    junk               \* history: the connection whose latest event is the read
                       \* of an unrecognized packet (0: none)

tcpVars == <<pc, index, accumulated_data, cycle_pos, cycle_lock, mongo_lock,
             collections, document, wire, pulls, trips, oks, storeCalls,
             persisted, junk>>

\* the MQTT subscriber
VARIABLES
    connected,         \* self.connected
    should_reconnect,  \* self.should_reconnect
    reconnect_delay,   \* self.reconnect_delay
    message_queue,     \* self.message_queue
    session_data,      \* self.session_data
    db,                \* documents inserted into each collection
    broadcasts,        \* events sent to the realtime group
    link,              \* the connection to the broker
    net_pc,            \* position of the network-loop thread
    main_pc,           \* position of the main thread
    cons_pc,           \* position of the _process_queue thread
    sleeps,            \* history: delays slept since the delay was last reset
    received,          \* history: number of _on_message calls
    enqueued,          \* history: number of messages put on the queue
    dropped,           \* history: number of messages dropped on a full queue
    handled,           \* history: number of messages dispatched
    first_raise,       \* history: first dispatch whose handler raised (0: none)
    last_attempt,      \* history: how the latest dispatch ended if it was a
                       \* generator completion attempt ("none": it was not)
    polled_after_stop  \* history: a get() timed out after disconnect() began

mqttVars == <<connected, should_reconnect, reconnect_delay, message_queue,
              session_data, db, broadcasts, link, net_pc, main_pc, cons_pc,
              sleeps, received, enqueued, dropped, handled, first_raise,
              last_attempt, polled_after_stop>>

\* the decoder on its own
VARIABLES
    dec_pc,      \* "idle": not used, "call": before the call, "done": after
    dec_index,   \* the argument index
    dec_hex,     \* the argument hex_response
    dec_values   \* the list returned

decVars == <<dec_pc, dec_index, dec_hex, dec_values>>

vars == <<tcpVars, mqttVars, decVars>>

\* an action of one program leaves the state of the others alone
TcpOnly == UNCHANGED <<mqttVars, decVars>>
MqttOnly == UNCHANGED <<tcpVars, decVars>>
DecodeOnly == UNCHANGED <<tcpVars, mqttVars>>

Conns == 1..NConns

\* RESPONSE_PACKETS, as hex
RESPONSE_PACKETS == <<"01260000000601030BB7000A",
                      "016E0000000601030BED0006",
                      "01B60000000601030C830008">>

\* position of a frame in RESPONSE_PACKETS (0-based)
FrameIndex(frame) == CHOOSE i \in 0..2 : RESPONSE_PACKETS[i + 1] = frame

\* f"response_{index}"
ResponseKey(i) == <<"response_0", "response_1", "response_2">>[i + 1]

AllKeys == {ResponseKey(i) : i \in 0..2}

\* {}
EmptyDict == [k \in {} |-> <<>>]

\* d[key] = v
DictSet(d, key, v) ==
    [k \in DOMAIN d \cup {key} |-> IF k = key THEN v ELSE d[k]]

\* data.get(key, [])
DictGet(d, key) == IF key \in DOMAIN d THEN d[key] ELSE <<>>

\* the keys of self.collections, in the order _store_data inserts into them
COLLECTION_NAMES == <<"solar_data", "today_solar_data",
                      "current_month_solar_data">>

\* n copies of the character c
Rep(c, n) == [i \in 1..n |-> c]

\* The replies a client sends to a frame (response.hex().upper()):
\*   no marker at all; marker, byte count and 8 bytes (two 4-byte values or
\*   one 8-byte value); marker and 4 bytes with no byte count.
Replies ==
    { <<"F", "F">>,
      <<"0", "1">> \o MARKER \o <<"0", "8">> \o Rep("B", 16),
      <<"0", "1">> \o MARKER \o Rep("C", 8) }

NoDocument == [client_id |-> 0]

TcpInit ==
    /\ pc = [c \in Conns |-> "none"]
    /\ index = [c \in Conns |-> 0]
    /\ accumulated_data = [c \in Conns |-> EmptyDict]
    /\ cycle_pos = 0
    /\ cycle_lock = 0
    /\ mongo_lock = 0
    /\ collections = [n \in 1..3 |-> <<>>]
    /\ document = [c \in Conns |-> NoDocument]
    /\ wire = [c \in Conns |-> <<>>]
    /\ pulls = <<>>
    /\ trips = [c \in Conns |-> 0]
    /\ oks = [c \in Conns |-> 0]
    /\ storeCalls = <<>>
    /\ persisted = [c \in Conns |-> 0]
    /\ junk = 0

(***************************************************************************)
(* TCP socket server: handle_client, one thread per connection             *)
(***************************************************************************)
\* pulls admitted so far: done, or on their way to next()
PullsStarted == Len(pulls) + Cardinality({c \in Conns : pc[c] = "lock"})

\* the histories pulls, trips and oks record the first MaxPulls events
Noted(history, event) ==
    IF Len(history) < MaxPulls THEN Append(history, event) ELSE history

Counted(n) == IF n < MaxPulls THEN n + 1 ELSE n

Goto(c, where) == pc' = [pc EXCEPT ![c] = where]

\* connection c does something else than read an unrecognized packet
Forget(c) == junk' = IF junk = c THEN 0 ELSE junk

\* start_server: accept() and the start of the connection's thread
Accept(c) ==
    /\ pc[c] = "none"
    /\ Goto(c, "recv")
    /\ UNCHANGED <<index, accumulated_data, cycle_pos, cycle_lock, mongo_lock,
                   collections, document, wire, pulls, trips, oks, storeCalls,
                   persisted, junk>>
    /\ TcpOnly

\* The thread ends: break, or an exception caught by the outer handlers; the
\* socket is closed by the with block and the thread's locals are gone.
Close(c) ==
    /\ Goto(c, "closed")
    /\ index' = [index EXCEPT ![c] = 0]
    /\ accumulated_data' = [accumulated_data EXCEPT ![c] = EmptyDict]
    /\ wire' = [wire EXCEPT ![c] = <<>>]
    /\ Forget(c)
    /\ UNCHANGED <<cycle_pos, cycle_lock, mongo_lock, collections, document,
                   pulls, trips, oks, storeCalls, persisted>>
    /\ TcpOnly

\* recv() returns the heartbeat packet: data == self.heartbeat_packet
Heartbeat(c) ==
    /\ pc[c] = "recv"
    /\ Goto(c, "lock")
    /\ Forget(c)
    /\ UNCHANGED <<index, accumulated_data, cycle_pos, cycle_lock, mongo_lock,
                   collections, document, wire, pulls, trips, oks, storeCalls,
                   persisted>>
    /\ TcpOnly

\* a heartbeat, while the histories still have room for its pull
RecvHeartbeat(c) ==
    /\ PullsStarted < MaxPulls
    /\ Heartbeat(c)

\* an unrecognized packet is answered like a heartbeat
UnrecognizedDispatches == "lock"

\* where the handler goes after the else branch that logs "Unrecognized packet"
AfterUnrecognized == "recv"

\* recv() returns non-empty bytes that are not the heartbeat packet
RecvUnrecognized(c) ==
    /\ pc[c] = "recv"
    /\ junk' = c
    /\ Goto(c, AfterUnrecognized)
    /\ UNCHANGED <<index, accumulated_data, cycle_pos, cycle_lock, mongo_lock,
                   collections, document, wire, pulls, trips, oks, storeCalls,
                   persisted>>
    /\ TcpOnly

\* recv() returns b"": the client disconnected, break
RecvEmpty(c) ==
    /\ pc[c] = "recv"
    /\ Close(c)

\* recv() raises socket.timeout or socket.error: the outer handlers end the thread
RecvTimeout(c) ==
    /\ pc[c] = "recv"
    /\ Close(c)

\* the cycle is pulled without holding the lock
NoCycleLock == TRUE

\* self.cycle_lock can be taken
CycleLockFree == cycle_lock = 0

\* with self.cycle_lock: next(self.response_cycle) reads the position ...
NextRead(c) ==
    /\ pc[c] = "lock"
    /\ CycleLockFree
    /\ cycle_lock' = c
    /\ index' = [index EXCEPT ![c] = cycle_pos]
    /\ pulls' = Noted(pulls, cycle_pos)
    /\ Goto(c, "adv")
    /\ UNCHANGED <<accumulated_data, cycle_pos, mongo_lock,
                   collections, document, wire, trips, oks, storeCalls,
                   persisted, junk>>
    /\ TcpOnly

\* ... and advances it, wrapping at the end of the list; the with block is left
NextAdvance(c) ==
    /\ pc[c] = "adv"
    /\ cycle_pos' = (index[c] + 1) % Len(RESPONSE_PACKETS)
    /\ cycle_lock' = 0
    /\ Goto(c, "send")
    /\ UNCHANGED <<index, accumulated_data, mongo_lock,
                   collections, document, wire, pulls, trips, oks, storeCalls,
                   persisted, junk>>
    /\ TcpOnly

\* client_socket.sendall(response_packet)
Send(c) ==
    /\ pc[c] = "send"
    /\ wire' = [wire EXCEPT ![c] = Append(@, RESPONSE_PACKETS[index[c] + 1])]
    /\ Goto(c, "reply")
    /\ UNCHANGED <<index, accumulated_data, cycle_pos, cycle_lock, mongo_lock,
                   collections, document, pulls, trips, oks, storeCalls,
                   persisted, junk>>
    /\ TcpOnly

\* sendall raises (broken pipe, reset): the outer handlers end the thread
SendFails(c) ==
    /\ pc[c] = "send"
    /\ Close(c)

\* the key is taken from the shared cycle instead of the pulled index
StoreKeyFromCycle(c) == ResponseKey(cycle_pos)

\* the key under which handle_client stores the decoded values
StoreKey(c) == ResponseKey(index[c])

\* the session counts as complete one slot early
SessionCompleteAtTwo(d) == Cardinality(DOMAIN d) >= 2

\* len(accumulated_data) == 3
SessionComplete(d) == Cardinality(DOMAIN d) = 3

\* a session that records the reply whether or not it decoded
AccumulateAlways(acc, key, values) == DictSet(acc, key, values)

\* if values: accumulated_data[f"response_{index}"] = values
Accumulate(acc, key, values) ==
    IF values # <<>> THEN DictSet(acc, key, values) ELSE acc

\* The reply arrives: hex-encode, _process_response, accumulate, maybe store.
\* index is not read again before the next pull assigns it.
RecvReply(c, response) ==
    /\ pc[c] = "reply"
    /\ LET values == ProcessResponse(index[c], response)
           acc    == Accumulate(accumulated_data[c], StoreKey(c), values)
       IN  /\ oks' = [oks EXCEPT ![c] = IF values # <<>> THEN Counted(@) ELSE @]
           /\ accumulated_data' = [accumulated_data EXCEPT ![c] = acc]
           /\ Goto(c, IF values # <<>> /\ SessionComplete(acc)
                      THEN "store" ELSE "recv")
    /\ trips' = [trips EXCEPT ![c] = Counted(@)]
    /\ wire' = [wire EXCEPT ![c] = Tail(@)]
    /\ index' = [index EXCEPT ![c] = 0]
    /\ UNCHANGED <<cycle_pos, cycle_lock, mongo_lock,
                   collections, document, pulls, storeCalls, persisted, junk>>
    /\ TcpOnly

\* the reply read returns b"": break
ReplyEmpty(c) ==
    /\ pc[c] = "reply"
    /\ Close(c)

\* the reply read raises socket.timeout or socket.error: break
ReplyTimeout(c) ==
    /\ pc[c] = "reply"
    /\ Close(c)

(***************************************************************************)
(* TCP socket server: _store_data                                          *)
(***************************************************************************)
\* the guard at the top of _store_data: len(data) != 3 returns at once
StoreGuard(data) == Cardinality(DOMAIN data) = 3

\* the document built by _store_data (its timestamp is the wall clock)
MakeDocument(data, client_id) ==
    [client_id          |-> client_id,
     current            |-> DictGet(data, "response_0"),
     power              |-> DictGet(data, "response_1"),
     energy_consumption |-> DictGet(data, "response_2")]

\* the reset after _store_data is forgotten
SessionKept(d) == d

\* accumulated_data = {} after _store_data returned
SessionAfterStore(d) == EmptyDict

\* _store_data returned to handle_client, which resets the session
ReturnFromStore(c) ==
    /\ accumulated_data' =
         [accumulated_data EXCEPT ![c] = SessionAfterStore(@)]
    /\ persisted' = [persisted EXCEPT ![c] =
                       IF SessionAfterStore(accumulated_data[c]) = EmptyDict
                       THEN 0 ELSE @]
    /\ document' = [document EXCEPT ![c] = NoDocument]
    /\ Goto(c, "recv")

\* self._store_data(accumulated_data, client_id): the call, up to the lock
StoreCall(c) ==
    /\ pc[c] = "store"
    /\ IF StoreGuard(accumulated_data[c])
       THEN /\ document' = [document EXCEPT ![c] =
                              MakeDocument(accumulated_data[c], c)]
            /\ storeCalls' = Append(storeCalls,
                                    [client_id |-> c, data |-> accumulated_data[c]])
            /\ persisted' = [persisted EXCEPT ![c] = @ + 1]
            /\ Goto(c, "mlock")
            /\ UNCHANGED accumulated_data
       ELSE /\ ReturnFromStore(c)
            /\ UNCHANGED storeCalls
    /\ UNCHANGED <<index, cycle_pos, cycle_lock, mongo_lock, collections,
                   wire, pulls, trips, oks, junk>>
    /\ TcpOnly

\* with self.mongo_lock: entry
AcquireMongoLock(c) ==
    /\ pc[c] = "mlock"
    /\ mongo_lock = 0
    /\ mongo_lock' = c
    /\ Goto(c, "ins1")
    /\ UNCHANGED <<index, accumulated_data, cycle_pos, cycle_lock,
                   collections, document, wire, pulls, trips, oks, storeCalls,
                   persisted, junk>>
    /\ TcpOnly

InsertPc == <<"ins1", "ins2", "ins3">>

\* self.collections[...].insert_one(document), first and second
InsertOne(c, n) ==
    /\ n \in 1..2
    /\ pc[c] = InsertPc[n]
    /\ collections' = [collections EXCEPT ![n] = Append(@, document[c])]
    /\ Goto(c, InsertPc[n + 1])
    /\ UNCHANGED <<index, accumulated_data, cycle_pos, cycle_lock, mongo_lock,
                   document, wire, pulls, trips, oks, storeCalls, persisted,
                   junk>>
    /\ TcpOnly

\* the third insert_one, the release of the lock and the return
InsertLast(c) ==
    /\ pc[c] = InsertPc[3]
    /\ collections' = [collections EXCEPT ![3] = Append(@, document[c])]
    /\ mongo_lock' = 0
    /\ ReturnFromStore(c)
    /\ UNCHANGED <<index, cycle_pos, cycle_lock, wire, pulls,
                   trips, oks, storeCalls, junk>>
    /\ TcpOnly

\* an insert_one raises PyMongoError: the lock is released, the error logged
InsertFails(c) ==
    /\ pc[c] \in {InsertPc[n] : n \in 1..3}
    /\ mongo_lock' = 0
    /\ ReturnFromStore(c)
    /\ UNCHANGED <<index, cycle_pos, cycle_lock, collections, wire,
                   pulls, trips, oks, storeCalls, junk>>
    /\ TcpOnly

TcpNext ==
    \E c \in Conns :
        \/ Accept(c)
        \/ RecvHeartbeat(c)
        \/ RecvUnrecognized(c)
        \/ RecvEmpty(c)
        \/ RecvTimeout(c)
        \/ NextRead(c)
        \/ NextAdvance(c)
        \/ Send(c)
        \/ SendFails(c)
        \/ \E response \in Replies : RecvReply(c, response)
        \/ ReplyEmpty(c)
        \/ ReplyTimeout(c)
        \/ StoreCall(c)
        \/ AcquireMongoLock(c)
        \/ \E n \in 1..2 : InsertOne(c, n)
        \/ InsertLast(c)
        \/ InsertFails(c)


(***************************************************************************)
(* MQTT subscriber: constants and data                                     *)
(* A JSON object is a function from keys to strings; Python's None is the  *)
(* string "None"; a payload that is not a JSON object has isdict = FALSE.  *)
(* The "data" entry of a generator payload, a list of data points, is kept *)
(* apart from the scalar entries.                                          *)
(***************************************************************************)
DEFAULT_RECONNECT_DELAY == 1
MAX_RECONNECT_DELAY == 60

\* the grid topics of TOPIC_MAPPING and their collections
TOPIC_MAPPING ==
    [t \in {"MQTT_RT_DATA", "MQTT_ENY_NOW"} |->
        IF t = "MQTT_RT_DATA" THEN "grid_rt_data" ELSE "grid_eny_now"]

ENV_TOPIC == "CCCL/PURBACHAL/ENV_01"
GEN_TOPIC == "CCCL/PURBACHAL/ENM_01"
GEN_COLLECTION == "generator_data"
ENV_COLLECTION == "environment_data"

SessionTopics == DOMAIN TOPIC_MAPPING \cup {GEN_TOPIC}
CollectionNames == {TOPIC_MAPPING[t] : t \in DOMAIN TOPIC_MAPPING}
                       \cup {GEN_COLLECTION, ENV_COLLECTION}

None == "None"
\* datetime.now(timezone.utc)
NOW == "now"

\* d.update(e)
DictUpdate(d, e) ==
    [k \in DOMAIN d \cup DOMAIN e |-> IF k \in DOMAIN e THEN e[k] ELSE d[k]]

\* d without key (d.pop(key) for its effect on d)
DictDel(d, key) == [k \in DOMAIN d \ {key} |-> d[k]]

\* d.get(key), None when absent
DictGetNone(d, key) == IF key \in DOMAIN d THEN d[key] ELSE None

NoData == [present |-> FALSE, items |-> <<>>]

\* a JSON object with scalar entries only
Obj(fields) == [isdict |-> TRUE, fields |-> fields, data |-> NoData]

\* a generator payload {"data": items}
GenObj(items) ==
    [isdict |-> TRUE, fields |-> EmptyDict,
     data |-> [present |-> TRUE, items |-> items]]

\* a JSON value that is not an object (an array)
NotObj == [isdict |-> FALSE, fields |-> EmptyDict, data |-> NoData]

\* a data point {"tp": tp, "point": [{"id": ., "val": .}, ...]}; {} is empty
DataPoint(tp, point) == [empty |-> FALSE, tp |-> tp, point |-> point]
EmptyPoint == [empty |-> TRUE, tp |-> None, point |-> <<>>]

\* {str(p["id"]): p["val"] for p in point}: later entries win
RECURSIVE PointsDict(_)
PointsDict(point) ==
    IF point = <<>> THEN EmptyDict
    ELSE LET n == Len(point)
         IN  DictSet(PointsDict(SubSeq(point, 1, n - 1)),
                     point[n].id, point[n].val)

(***************************************************************************)
(* MQTT subscriber: validation                                             *)
(***************************************************************************)
\* timestamps the generator model accepts: int, ge=0
GenTimestamps == {"1000", "2000"}

\* GeneratorDataModel.from_flat_dict(data): timestamp is popped from data
\* and must be an int >= 0; every remaining value must be int, float or str
GeneratorValid(data) ==
    /\ DictGetNone(data, "timestamp") \in GenTimestamps
    /\ \A k \in DOMAIN data \ {"timestamp"} : data[k] # None

\* what from_flat_dict leaves in the dict it was given
FromFlatDictLeaves(data) == DictDel(data, "timestamp")

\* GeneratorDataModel.model_dump: {"timestamp": ts, **payload}
GeneratorDump(data) ==
    DictUpdate([k \in {"timestamp"} |-> data["timestamp"]],
               DictDel(data, "timestamp"))

\* the fields of EnvironmentData: name and alias
EnvFields == { <<"pm1_0", "pm1_0(ug/m3)">>, <<"pm2_5", "pm2_5(ug/m3)">>,
               <<"pm10_0", "pm10_0(ug/m3)">>, <<"humidity", "hum(%)">>,
               <<"temp_1", "temp_1(*C)">>, <<"dew_point", "dp(*C)">> }

\* the value given for a field: by alias, else by name (validate_by_name)
EnvValue(payload, f) ==
    IF f[2] \in DOMAIN payload THEN payload[f[2]]
    ELSE DictGetNone(payload, f[1])

\* EnvironmentData(**payload) validates: every field present and a number
EnvValid(payload) ==
    /\ "timestamp" \in DOMAIN payload
    /\ \A f \in EnvFields : EnvValue(payload, f) \notin {None, "bad"}

\* validated.model_dump(mode="json"): by field name
EnvDump(payload) ==
    [k \in {f[1] : f \in EnvFields} \cup {"timestamp"} |->
        IF k = "timestamp" THEN payload["timestamp"]
        ELSE EnvValue(payload, CHOOSE f \in EnvFields : f[1] = k)]

\* the fields of the grid record shapes (RTDataModel, ENYNowDataModel)
GridFields == {"device_id", "timestamp", "v"}

\* model_class(**session) validates: every field present and well-typed
GridValid(session) ==
    \A k \in GridFields : DictGetNone(session, k) \notin {None, "bad"}

\* validated.model_dump(mode='json'): the fields of the record shape
GridDump(session) == [k \in GridFields |-> session[k]]

(***************************************************************************)
(* MQTT subscriber: the handlers, as functions of the subscriber's data    *)
(*   st = [session_data, db, broadcasts]                                   *)
(* and of what the store and the channel layer do (o.insert_ok, o.send_ok) *)
(* The result also tells whether an exception left the handler.            *)
(***************************************************************************)
Returned(st) ==
    [session_data |-> st.session_data, db |-> st.db,
     broadcasts |-> st.broadcasts, raised |-> FALSE]

Raised(st) ==
    [session_data |-> st.session_data, db |-> st.db,
     broadcasts |-> st.broadcasts, raised |-> TRUE]

WithSession(st, topic, session) ==
    [st EXCEPT !.session_data = [@ EXCEPT ![topic] = session]]

\* the insert is skipped
InsertSkipped(st, collection, doc) == st

\* self.mongodb[collection].insert_one(doc)
InsertOneDoc(st, collection, doc) ==
    [st EXCEPT !.db = [@ EXCEPT ![collection] = Append(@, doc)]]

\* _send_realtime_data: a failing group_send is logged and swallowed
SendRealtimeData(st, topic, data, o) ==
    IF o.send_ok
    THEN [st EXCEPT !.broadcasts = Append(@, [topic |-> topic, payload |-> data])]
    ELSE st

\* _handle_env_data
HandleEnvData(st, topic, payload, o) ==
    IF ~payload.isdict THEN Raised(st)
    ELSE LET stamped == DictSet(payload.fields, "timestamp", NOW)
         IN  IF ~EnvValid(stamped) \/ ~o.insert_ok THEN Returned(st)
             ELSE Returned(SendRealtimeData(
                      InsertOneDoc(st, ENV_COLLECTION, stamped),
                      topic, EnvDump(stamped), o))

\* any isend field counts as the end marker
EndMarkerPresent(payload) == "isend" \in DOMAIN payload.fields

\* the end marker of a grid fragment
IsEnd(payload) == DictGetNone(payload.fields, "isend") = "1"

\* _handle_grid_data
HandleGridData(st, topic, payload, o) ==
    IF ~payload.isdict THEN Raised(st)
    ELSE LET merged  == DictUpdate(st.session_data[topic], payload.fields)
             cleared == WithSession(st, topic, EmptyDict)
         IN  IF ~IsEnd(payload) THEN Returned(WithSession(st, topic, merged))
             ELSE IF "id" \notin DOMAIN merged THEN Returned(cleared)
             ELSE LET record == DictSet(DictSet(DictDel(merged, "id"),
                                                "device_id", merged["id"]),
                                        "timestamp", NOW)
                  IN  IF ~GridValid(record) \/ ~o.insert_ok
                      THEN Returned(cleared)
                      ELSE Returned(SendRealtimeData(
                               InsertOneDoc(cleared, TOPIC_MAPPING[topic], record),
                               topic, GridDump(record), o))

\* every fragment is taken for the second of its reading
SameReadingAlways(session, timestamp) == TRUE

\* the test that takes a generator fragment for the second of its reading
SameReading(session, timestamp) ==
    DictGetNone(session, "timestamp") = timestamp

\* the merged session keeps the device id under the key "0"
GeneratorMergeNoRename(session, doc) == DictUpdate(session, doc)

\* session.update(doc); session["device_id"] = session.pop("0", None)
GeneratorMerge(session, doc) ==
    LET merged == DictUpdate(session, doc)
    IN  DictSet(DictDel(merged, "0"), "device_id", DictGetNone(merged, "0"))

\* a handler that leaves the session as it is where the code clears it
SessionLeft(st, topic) == st

\* session.clear() in _handle_generator_data
ClearSession(st, topic) == WithSession(st, topic, EmptyDict)

\* _handle_generator_data
HandleGeneratorData(st, topic, payload, o) ==
    LET session == st.session_data[topic]
        cleared == ClearSession(st, topic)
    IN  IF ~payload.isdict THEN Returned(cleared)
        ELSE IF ~payload.data.present THEN Returned(st)
        ELSE IF payload.data.items = <<>> THEN Returned(cleared)
        ELSE LET data_point == payload.data.items[1]
             IN  IF data_point.empty THEN Returned(st)
                 ELSE LET timestamp == data_point.tp
                          doc == DictUpdate([k \in {"timestamp"} |-> timestamp],
                                            PointsDict(data_point.point))
                      IN  IF ~SameReading(session, timestamp)
                          THEN Returned(WithSession(st, topic,
                                                    DictUpdate(session, doc)))
                          ELSE LET data_to_insert == GeneratorMerge(session, doc)
                               IN  IF ~GeneratorValid(data_to_insert) \/ ~o.insert_ok
                                   THEN Returned(cleared)
                                   ELSE Returned(SendRealtimeData(
                                            InsertOneDoc(cleared, GEN_COLLECTION,
                                                FromFlatDictLeaves(data_to_insert)),
                                            topic, GeneratorDump(data_to_insert), o))

\* history: how the call of _handle_generator_data ends when it reaches the
\* branch of the equal timestamps (the completion attempt)
AttemptOutcome(st, topic, payload, o) ==
    IF \/ topic # GEN_TOPIC
       \/ ~payload.isdict
       \/ ~payload.data.present
       \/ payload.data.items = <<>>
    THEN "none"
    ELSE LET data_point == payload.data.items[1]
             session == st.session_data[topic]
             doc == DictUpdate([k \in {"timestamp"} |-> data_point.tp],
                               PointsDict(data_point.point))
         IN  IF data_point.empty \/ ~SameReading(session, data_point.tp)
             THEN "none"
             ELSE IF ~GeneratorValid(GeneratorMerge(session, doc))
             THEN "invalid"
             ELSE IF ~o.insert_ok THEN "insert_raised"
             ELSE "inserted"

\* _handle_message
HandleMessage(st, topic, payload, o) ==
    IF topic \in DOMAIN TOPIC_MAPPING THEN HandleGridData(st, topic, payload, o)
    ELSE IF topic = ENV_TOPIC THEN HandleEnvData(st, topic, payload, o)
    ELSE IF topic = GEN_TOPIC THEN HandleGeneratorData(st, topic, payload, o)
    ELSE Returned(st)

(***************************************************************************)
(* MQTT subscriber: state                                                  *)
(* paho-mqtt runs the callbacks on its network-loop thread; the library is *)
(* not part of the sources, and the model lets _on_connect run as soon as  *)
(* the broker answered, wherever the reconnect loop stands.                *)
(***************************************************************************)

Message(topic, payload) == [topic |-> topic, payload |-> payload]

\* messages of the grid topic: a first fragment, the final fragment
GridMsgs ==
    { Message("MQTT_RT_DATA",
              Obj([k \in {"id", "v"} |-> IF k = "id" THEN "M1" ELSE "5"])),
      Message("MQTT_RT_DATA", Obj([k \in {"isend"} |-> "1"])) }

\* a complete environment reading, and one with a field missing
EnvMsgs ==
    { Message(ENV_TOPIC,
              Obj([k \in {f[2] : f \in EnvFields} |-> "1"])),
      Message(ENV_TOPIC, Obj([k \in {"hum(%)"} |-> "1"])) }

\* the two fragments of one generator reading
GenMsgs ==
    { Message(GEN_TOPIC,
              GenObj(<<DataPoint("1000", <<[id |-> "0", val |-> "G7"]>>)>>)),
      Message(GEN_TOPIC,
              GenObj(<<DataPoint("1000", <<[id |-> "Y", val |-> "42"]>>)>>)) }

\* a topic without handler, and payloads that are no JSON object
OddMsgs ==
    { Message("other/topic", Obj(EmptyDict)),
      Message("MQTT_RT_DATA", NotObj),
      Message(ENV_TOPIC, NotObj) }

Msgs == GridMsgs \cup EnvMsgs \cup GenMsgs \cup OddMsgs

\* what the store and the channel layer do during one dispatch
Outcomes == [insert_ok : BOOLEAN, send_ok : BOOLEAN]

MqttInit ==
    /\ connected = FALSE
    /\ should_reconnect = TRUE
    /\ reconnect_delay = DEFAULT_RECONNECT_DELAY
    /\ message_queue = <<>>
    /\ session_data = [t \in SessionTopics |-> EmptyDict]
    /\ db = [n \in CollectionNames |-> <<>>]
    /\ broadcasts = <<>>
    /\ link = "pending"
    /\ net_pc = "idle"
    /\ main_pc = "run"
    /\ cons_pc = "get"
    /\ sleeps = <<>>
    /\ received = 0
    /\ enqueued = 0
    /\ dropped = 0
    /\ handled = 0
    /\ first_raise = 0
    /\ last_attempt = "none"
    /\ polled_after_stop = FALSE

(***************************************************************************)
(* MQTT subscriber: the network-loop thread                                *)
(***************************************************************************)
netVars  == <<connected, reconnect_delay, link, net_pc, sleeps>>
dataVars == <<session_data, db, broadcasts, handled, first_raise, last_attempt>>
feedVars == <<received, enqueued, dropped>>
consVars == <<cons_pc, polled_after_stop>>

\* _on_connect with reason code 0
OnConnect ==
    /\ link = "pending"
    /\ link' = "up"
    /\ connected' = TRUE
    /\ reconnect_delay' = DEFAULT_RECONNECT_DELAY
    /\ sleeps' = <<>>
    /\ UNCHANGED <<should_reconnect, message_queue, net_pc, main_pc,
                   feedVars, dataVars, consVars>>
    /\ MqttOnly

\* _on_connect with another reason code: the error is logged
OnConnectRefused ==
    /\ link = "pending"
    /\ link' = "refused"
    /\ UNCHANGED <<connected, should_reconnect, reconnect_delay, message_queue,
                   net_pc, main_pc, sleeps, feedVars,
                   dataVars, consVars>>
    /\ MqttOnly

\* _on_disconnect: the connection is gone (lost, refused, or closed by
\* disconnect()); with should_reconnect set, _reconnect is entered
OnDisconnect ==
    /\ net_pc = "idle"
    /\ link \in {"up", "pending", "refused", "closing"}
    /\ link' = "down"
    /\ connected' = FALSE
    /\ net_pc' = IF should_reconnect THEN "rc_check" ELSE "idle"
    /\ UNCHANGED <<should_reconnect, reconnect_delay, message_queue, main_pc,
                   sleeps, feedVars, dataVars, consVars>>
    /\ MqttOnly

\* _reconnect: while not self.connected and self.should_reconnect
ReconnectCheck ==
    /\ net_pc = "rc_check"
    /\ net_pc' = IF ~connected /\ should_reconnect THEN "rc_sleep" ELSE "idle"
    /\ UNCHANGED <<connected, should_reconnect, reconnect_delay, message_queue,
                   link, main_pc, sleeps, feedVars,
                   dataVars, consVars>>
    /\ MqttOnly

\* time.sleep(self.reconnect_delay)
ReconnectSleep ==
    /\ net_pc = "rc_sleep"
    /\ Len(sleeps) < MaxSleeps
    /\ sleeps' = Append(sleeps, reconnect_delay)
    /\ net_pc' = "rc_attempt"
    /\ UNCHANGED <<connected, should_reconnect, reconnect_delay, message_queue,
                   link, main_pc, feedVars,
                   dataVars, consVars>>
    /\ MqttOnly

\* self.client.reconnect() returns: the broker's answer is awaited
ReconnectOk ==
    /\ net_pc = "rc_attempt"
    /\ link' = "pending"
    /\ net_pc' = "rc_update"
    /\ UNCHANGED <<connected, should_reconnect, reconnect_delay, message_queue,
                   main_pc, sleeps, feedVars,
                   dataVars, consVars>>
    /\ MqttOnly

\* self.client.reconnect() raises: the error is logged
ReconnectFails ==
    /\ net_pc = "rc_attempt"
    /\ link' = "down"
    /\ net_pc' = "rc_update"
    /\ UNCHANGED <<connected, should_reconnect, reconnect_delay, message_queue,
                   main_pc, sleeps, feedVars,
                   dataVars, consVars>>
    /\ MqttOnly

Min(a, b) == IF a < b THEN a ELSE b

\* min(self.reconnect_delay * 2, MAX_RECONNECT_DELAY)
NextDelay(delay) == Min(delay * 2, MAX_RECONNECT_DELAY)

\* self.reconnect_delay = min(...), the last statement of the loop body
ReconnectUpdate ==
    /\ net_pc = "rc_update"
    /\ reconnect_delay' = NextDelay(reconnect_delay)
    /\ net_pc' = "rc_check"
    /\ UNCHANGED <<connected, should_reconnect, message_queue, link, main_pc,
                   sleeps, feedVars, dataVars, consVars>>
    /\ MqttOnly

\* the item is put on the queue whatever its size
PutUnbounded(queue, item) == Append(queue, item)

\* the queue after put_nowait(item); Full leaves it as it is
PutNowait(queue, item) ==
    IF Len(queue) < QUEUE_MAX_SIZE THEN Append(queue, item) ELSE queue

\* _on_message with a payload that json.loads accepts
OnMessage(msg) ==
    /\ net_pc = "idle"
    /\ link = "up"
    /\ received < MaxMsgs
    /\ received' = received + 1
    /\ message_queue' = PutNowait(message_queue, msg)
    /\ enqueued' = IF message_queue' # message_queue
                   THEN enqueued + 1 ELSE enqueued
    /\ dropped' = IF message_queue' # message_queue
                  THEN dropped ELSE dropped + 1
    /\ UNCHANGED <<should_reconnect, main_pc, netVars, dataVars, consVars>>
    /\ MqttOnly

\* _on_message with a payload that is not JSON: logged and dropped
OnMessageInvalid ==
    /\ net_pc = "idle"
    /\ link = "up"
    /\ received < MaxMsgs
    /\ received' = received + 1
    /\ UNCHANGED <<should_reconnect, message_queue, main_pc, enqueued,
                   dropped, netVars, dataVars, consVars>>
    /\ MqttOnly

(***************************************************************************)
(* MQTT subscriber: the _process_queue thread                              *)
(***************************************************************************)
\* an exception of a handler ends the loop
HandlerExceptionEndsLoop == "dead"

\* where _process_queue goes after "except Exception": back to get()
AfterHandlerException == "get"

\* message_queue.get returns an item; _handle_message(topic, payload)
ConsumerPop(o) ==
    /\ cons_pc = "get"
    /\ message_queue # <<>>
    /\ LET msg == Head(message_queue)
           st  == [session_data |-> session_data, db |-> db,
                   broadcasts |-> broadcasts]
           r   == HandleMessage(st, msg.topic, msg.payload, o)
       IN  /\ session_data' = r.session_data
           /\ db' = r.db
           /\ broadcasts' = r.broadcasts
           /\ first_raise' = IF first_raise = 0 /\ r.raised
                             THEN handled + 1 ELSE first_raise
           /\ cons_pc' = IF r.raised THEN AfterHandlerException ELSE "get"
           /\ last_attempt' = AttemptOutcome(st, msg.topic, msg.payload, o)
    /\ message_queue' = Tail(message_queue)
    /\ handled' = handled + 1
    /\ UNCHANGED <<should_reconnect, main_pc, feedVars, netVars,
                   polled_after_stop>>
    /\ MqttOnly

\* message_queue.get(timeout=QUEUE_TIMEOUT) raises Empty: continue
ConsumerTimeout ==
    /\ cons_pc = "get"
    /\ message_queue = <<>>
    /\ polled_after_stop' = (polled_after_stop \/ main_pc # "run")
    /\ UNCHANGED <<should_reconnect, message_queue, main_pc, cons_pc,
                   feedVars, netVars, dataVars>>
    /\ MqttOnly

(***************************************************************************)
(* MQTT subscriber: shutdown_handler on the main thread                    *)
(***************************************************************************)
\* disconnect(): self.should_reconnect = False
DisconnectFlag ==
    /\ main_pc = "run"
    /\ should_reconnect' = FALSE
    /\ main_pc' = "disconnect"
    /\ UNCHANGED <<message_queue, feedVars, netVars, dataVars,
                   consVars>>
    /\ MqttOnly

\* disconnect(): self.client.disconnect()
DisconnectClient ==
    /\ main_pc = "disconnect"
    /\ link' = IF link = "down" THEN "down" ELSE "closing"
    /\ main_pc' = "loop_stop"
    /\ UNCHANGED <<connected, should_reconnect, reconnect_delay, message_queue,
                   net_pc, sleeps, feedVars, dataVars,
                   consVars>>
    /\ MqttOnly

\* disconnect(): self.client.loop_stop() joins the network-loop thread
LoopStop ==
    /\ main_pc = "loop_stop"
    /\ net_pc = "idle"
    /\ net_pc' = "stopped"
    /\ main_pc' = "exit"
    /\ UNCHANGED <<connected, should_reconnect, reconnect_delay, message_queue,
                   link, sleeps, feedVars, dataVars,
                   consVars>>
    /\ MqttOnly

\* shutdown_handler: sys.exit(0); the daemon thread dies with the process
Exit ==
    /\ main_pc = "exit"
    /\ main_pc' = "exited"
    /\ cons_pc' = "killed"
    /\ UNCHANGED <<should_reconnect, message_queue, feedVars,
                   netVars, dataVars, polled_after_stop>>
    /\ MqttOnly

(***************************************************************************)
(* The decoder on its own: _process_response applied to one response       *)
(***************************************************************************)

\* k characters: "A"s, or the marker repeated, or "A"s with one "G" in them
Fill(kind, k) ==
    [j \in 1..k |-> IF kind = "marker" THEN MARKER[((j - 1) % 4) + 1]
                    ELSE IF kind = "bad" /\ j = 3 THEN "G"
                    ELSE "A"]

DecPrefixes == {<<>>, <<"F", "F">>}

\* responses with the marker followed by 0..MaxTail characters, and without
DecInputs ==
    {p \o MARKER \o Fill(kind, k) :
        p \in DecPrefixes, kind \in {"hex", "marker", "bad"}, k \in 0..MaxTail}
    \cup {<<>>, <<"F", "F">>, <<"0", "1", "0">>}

DecIdle ==
    /\ dec_pc = "idle"
    /\ dec_index = 0
    /\ dec_hex = <<>>
    /\ dec_values = <<>>

DecInit ==
    /\ dec_pc = "call"
    /\ dec_index \in 0..2
    /\ dec_hex \in DecInputs
    /\ dec_values = <<>>

Decode ==
    /\ dec_pc = "call"
    /\ dec_values' = ProcessResponse(dec_index, dec_hex)
    /\ dec_pc' = "done"
    /\ UNCHANGED <<dec_index, dec_hex>>
    /\ DecodeOnly

(***************************************************************************)
(* Specifications                                                          *)
(***************************************************************************)
\* the state after construction; the decoder on its own is not in use
Init == TcpInit /\ MqttInit /\ DecIdle

\* the TCP socket server
SpecTcp == Init /\ [][TcpNext]_vars

\* a reading of connection c is in the third collection: it was persisted
Stored(c) ==
    \E i \in 1..Len(collections[3]) : collections[3][i].client_id = c

\* the replies that decode whatever frame they answer
DecodableReplies ==
    {response \in Replies :
        \A i \in 0..2 : ProcessResponse(i, response) # <<>>}

\* the client of connection c sends a heartbeat; it does so until a reading
\* of its connection is persisted
HeartbeatUntilStored(c) ==
    /\ ~Stored(c)
    /\ Heartbeat(c)

\* what the client of connection c does: connect, send a heartbeat, answer a
\* frame with a decodable reply
ClientStep(c) ==
    \/ Accept(c)
    \/ HeartbeatUntilStored(c)
    \/ \E response \in DecodableReplies : RecvReply(c, response)

\* what the thread of connection c does on its own; the socket and the store
\* do not fail
ServerStep(c) ==
    \/ NextRead(c)
    \/ NextAdvance(c)
    \/ Send(c)
    \/ StoreCall(c)
    \/ AcquireMongoLock(c)
    \/ \E n \in 1..2 : InsertOne(c, n)
    \/ InsertLast(c)

TcpLiveNext == \E c \in Conns : ClientStep(c) \/ ServerStep(c)

\* every connection's thread is scheduled again and again, and gets a lock
\* it keeps asking for
SpecTcpLive ==
    /\ Init
    /\ [][TcpLiveNext]_vars
    /\ \A c \in Conns : SF_vars(ServerStep(c))

\* _process_response called once, on any input of DecInputs
InitDecode == TcpInit /\ MqttInit /\ DecInit

SpecDecode == InitDecode /\ [][Decode]_vars

\* two messages are enough to fill the queue
BusMsgs == { Message("other/topic", Obj(EmptyDict)),
             Message("MQTT_RT_DATA", NotObj) }

\* the subscriber with its connection: loss, reconnect loop and shutdown
BusNext ==
    \/ OnConnect
    \/ OnConnectRefused
    \/ OnDisconnect
    \/ ReconnectCheck
    \/ ReconnectSleep
    \/ ReconnectOk
    \/ ReconnectFails
    \/ ReconnectUpdate
    \/ \E msg \in BusMsgs : OnMessage(msg)
    \/ OnMessageInvalid
    \/ \E o \in Outcomes : ConsumerPop(o)
    \/ ConsumerTimeout
    \/ DisconnectFlag
    \/ DisconnectClient
    \/ LoopStop
    \/ Exit

SpecBus == Init /\ [][BusNext]_vars

\* the subscriber while the process runs and the connection stays up
IngestNext ==
    \/ OnConnect
    \/ \E msg \in Msgs : OnMessage(msg)
    \/ OnMessageInvalid
    \/ \E o \in Outcomes : ConsumerPop(o)
    \/ ConsumerTimeout

SpecIngest == Init /\ [][IngestNext]_vars

\* fragments of the three handlers: for the grid topic a first fragment, the
\* final fragment and a fragment whose isend is not the sentinel and whose
\* value does not validate
HandlerGridMsgs ==
    GridMsgs \cup
    { Message("MQTT_RT_DATA",
              Obj([k \in {"v", "isend"} |-> IF k = "v" THEN "bad" ELSE "0"])) }

\* for the generator topic the two fragments of the reading "1000", a
\* fragment of the reading "2000", and payloads without a first data point:
\* no data entry, an empty data list, an empty first entry
HandlerGenMsgs ==
    GenMsgs \cup
    { Message(GEN_TOPIC,
              GenObj(<<DataPoint("2000", <<[id |-> "Z", val |-> "7"]>>)>>)),
      Message(GEN_TOPIC, Obj(EmptyDict)),
      Message(GEN_TOPIC, GenObj(<<>>)),
      Message(GEN_TOPIC, GenObj(<<EmptyPoint>>)) }

HandlerMsgs == HandlerGridMsgs \cup HandlerGenMsgs \cup EnvMsgs

\* the subscriber fed with the fragments of HandlerMsgs
HandlersNext ==
    \/ OnConnect
    \/ \E msg \in HandlerMsgs : OnMessage(msg)
    \/ \E o \in Outcomes : ConsumerPop(o)
    \/ ConsumerTimeout

SpecHandlers == Init /\ [][HandlersNext]_vars

\* the _process_queue thread is scheduled as long as the process runs
SpecIngestLive ==
    /\ SpecIngest
    /\ WF_vars(\E o \in Outcomes : ConsumerPop(o))

(***************************************************************************)
(* Claims about the TCP socket server                                      *)
(***************************************************************************)
StorePhases == {"mlock", "ins1", "ins2", "ins3"}

\* C1: a document is written for a connection only when its session holds
\* exactly the keys response_0, response_1, response_2; a session with fewer
\* keys never has a write in progress, and a completed session is written at
\* most once before it is reset.
C1_PersistOnlyComplete ==
    /\ \A k \in 1..Len(storeCalls) : DOMAIN storeCalls[k].data = AllKeys
    /\ \A n \in 1..3 : Len(collections[n]) <= Len(storeCalls)
    /\ \A c \in Conns :
         /\ persisted[c] <= 1
         /\ DOMAIN accumulated_data[c] # AllKeys =>
              /\ persisted[c] = 0
              /\ pc[c] \notin StorePhases
              /\ document[c] = NoDocument
         /\ pc[c] \in StorePhases =>
              /\ persisted[c] = 1
              /\ document[c] = MakeDocument(accumulated_data[c], c)

\* C1 witness: a complete session was written to all three collections and
\* the connection is back at the heartbeat read with an empty session
C1_Witness ==
    \E c \in Conns :
        /\ Len(storeCalls) = 1
        /\ storeCalls[1].client_id = c
        /\ Len(collections[3]) = 1
        /\ pc[c] = "recv"
        /\ accumulated_data[c] = EmptyDict

\* C2: the indices returned by the pulls of the shared cycle are, in the
\* order of the lock acquisitions, 0,1,2,0,1,2,...; each index is returned
\* floor(N/3) or ceil(N/3) times.
C2_RoundRobin ==
    /\ \A k \in 1..Len(pulls) : pulls[k] = (k - 1) % 3
    /\ \A i \in 0..2 :
         Cardinality({k \in 1..Len(pulls) : pulls[k] = i})
             \in {Len(pulls) \div 3, (Len(pulls) + 2) \div 3}

\* C2 witness: four pulls by two connections, the fourth returning the
\* first index again while its caller still holds the lock
C2_Witness ==
    /\ Len(pulls) = 4
    /\ pulls[4] = 0
    /\ \E c, d \in Conns :
         c # d /\ pc[c] = "adv" /\ cycle_lock = c /\ trips[c] >= 1 /\ trips[d] >= 1

C4_StrictOrder ==
    [][\A c \in Conns :
         /\ Len(wire'[c]) <= 1
         /\ Len(wire'[c]) > Len(wire[c]) => wire[c] = <<>>
         /\ (accumulated_data'[c] # accumulated_data[c]
               /\ accumulated_data'[c] # EmptyDict) =>
               /\ wire[c] # <<>>
               /\ wire'[c] = <<>>
               /\ LET i   == FrameIndex(Head(wire[c]))
                      key == ResponseKey(i)
                  IN  /\ key \in DOMAIN accumulated_data'[c]
                      /\ accumulated_data'[c] =
                           DictSet(accumulated_data[c], key,
                                   accumulated_data'[c][key])
                      /\ \E r \in Replies :
                           /\ ProcessResponse(i, r) # <<>>
                           /\ accumulated_data'[c][key] = ProcessResponse(i, r)
      ]_vars

\* C4 witness: a connection that stored the reply to frame 1 waits for the
\* reply to the next frame it sent
C4_Witness ==
    \E c \in Conns :
        /\ DOMAIN accumulated_data[c] = {"response_1"}
        /\ pc[c] = "reply"
        /\ Len(wire[c]) = 1

\* C5: with one connected client on a fresh server, three round trips whose
\* replies all decode non-empty fill slots 0, 1, 2 in that order; right
\* after the third the handler is at the persistence call with all three
\* slots, exactly one call is made, and the session is empty afterwards.
C5_ThreeRoundTrips ==
    \A c \in Conns :
        ((\A d \in Conns \ {c} : pc[d] = "none")
           /\ oks[c] = trips[c] /\ trips[c] <= 3 /\ pc[c] # "closed") =>
        /\ trips[c] < 3 =>
             /\ DOMAIN accumulated_data[c] =
                  {ResponseKey(i) : i \in 0..(trips[c] - 1)}
             /\ storeCalls = <<>>
        /\ (trips[c] = 3 /\ pc[c] = "store") =>
             /\ DOMAIN accumulated_data[c] = AllKeys
             /\ storeCalls = <<>>
        /\ (trips[c] = 3 /\ pc[c] # "store") =>
             /\ Len(storeCalls) = 1
             /\ storeCalls[1].client_id = c
             /\ DOMAIN storeCalls[1].data = AllKeys
             /\ accumulated_data[c] =
                  IF pc[c] \in StorePhases THEN storeCalls[1].data
                  ELSE EmptyDict

\* C5 witness: the single client is back at the heartbeat read after the
\* one persistence call that followed its third round trip
C5_Witness ==
    \E c \in Conns :
        /\ \A d \in Conns \ {c} : pc[d] = "none"
        /\ trips[c] = 3 /\ oks[c] = 3
        /\ pc[c] = "recv"
        /\ Len(storeCalls) = 1
        /\ Len(collections[1]) = 1
        /\ accumulated_data[c] = EmptyDict

(***************************************************************************)
(* Claims about the decoder                                                *)
(***************************************************************************)
\* C6 as claimed: for a response of hex characters that holds the marker,
\* the number of values is decided by the number of hex characters that
\* follow the marker: that number divided by the chunk size (16 for slot 2,
\* 8 for slots 0 and 1) when it is a multiple, none otherwise.
C6_LengthAfterMarker ==
    (dec_pc = "done" /\ IsHex(dec_hex) /\ FindFirst(dec_hex, MARKER) # -1) =>
        LET after == AfterMarker(dec_hex)
            size  == IF dec_index = 2 THEN 16 ELSE 8
        IN  Len(dec_values) =
                IF Len(after) % size = 0 THEN Len(after) \div size ELSE 0

\* C6 amended: the decoder drops the two hex characters that follow the
\* marker; the number of values is decided by the number of characters left
\* after them, and each value is unpacked from its chunk of those, in order.
C6_LengthAfterResidue ==
    (dec_pc = "done" /\ IsHex(dec_hex) /\ FindFirst(dec_hex, MARKER) # -1) =>
        LET after == AfterMarker(dec_hex)
            left  == IF Len(after) > 2 THEN Len(after) - 2 ELSE 0
            size  == IF dec_index = 2 THEN 16 ELSE 8
        IN  /\ Len(dec_values) =
                 IF left % size = 0 THEN left \div size ELSE 0
            /\ \A k \in 1..Len(dec_values) :
                 /\ dec_values[k].hex =
                      SubSeq(after, 2 + (k - 1) * size + 1, 2 + k * size)
                 /\ dec_values[k].fmt = IF dec_index = 2 THEN "!q" ELSE "!f"

\* C6 witness: slot 2 decoded two values from 34 characters after the marker
C6_Witness ==
    /\ dec_pc = "done"
    /\ IsHex(dec_hex)
    /\ dec_index = 2
    /\ Len(AfterMarker(dec_hex)) = 34
    /\ Len(dec_values) = 2

(***************************************************************************)
(* Claims about the MQTT subscriber                                        *)
(***************************************************************************)
\* C7: the queue never holds more than QUEUE_MAX_SIZE messages; a call of
\* _on_message that finds the queue full leaves the queue as it is and
\* drops the message, and every call of _on_message returns in the same
\* step, whatever the consumer does.
C7_FullQueueDrops ==
    /\ [](Len(message_queue) <= QUEUE_MAX_SIZE)
    /\ [][received' # received =>
            /\ net_pc' = "idle"
            /\ cons_pc' = cons_pc /\ handled' = handled
            /\ Len(message_queue) = QUEUE_MAX_SIZE =>
                 /\ message_queue' = message_queue
                 /\ enqueued' = enqueued
         ]_vars

\* C7 witness: a message was dropped on a full queue, which is still full
C7_Witness ==
    /\ dropped >= 1
    /\ Len(message_queue) = QUEUE_MAX_SIZE
    /\ net_pc = "idle"

\* C8: the consumer loop never ends, whatever the dispatch of a message
\* does; every message put on the queue is eventually dispatched.
C8_ConsumerSurvives ==
    /\ [](cons_pc = "get")
    /\ \A n \in 1..MaxMsgs : (enqueued >= n) ~> (handled >= n)

\* C8 witness: a message was dispatched after one whose handler raised
C8_Witness ==
    /\ first_raise >= 1
    /\ handled > first_raise
    /\ cons_pc = "get"

\* C9 as claimed: once a get() of the consumer has timed out after
\* disconnect() began, the consumer has left its loop.
C9_ConsumerExitsAfterPoll ==
    polled_after_stop => cons_pc # "get"

\* C10 as claimed: the delay stays within 1..60, and the delays slept since
\* the last successful connection are 1, 2, 4, 8, 16, 32, 60, 60, ...
C10_BackoffSequence ==
    /\ reconnect_delay >= 1
    /\ reconnect_delay <= 60
    /\ \A j \in 1..Len(sleeps) :
         sleeps[j] = IF j <= 6 THEN <<1, 2, 4, 8, 16, 32>>[j] ELSE 60

\* C11 as claimed: when the reconnect loop has ended with the subscriber
\* connected, the backoff delay is the initial delay, in whatever order
\* _on_connect and the loop's own update of the delay ran.
C11_DelayResetAfterReconnect ==
    (connected /\ net_pc = "idle") =>
        reconnect_delay = DEFAULT_RECONNECT_DELAY

\* C12 as claimed: once disconnect() has cleared should_reconnect, the
\* reconnect loop calls client.reconnect() no more, also when the flag was
\* cleared while the loop slept.
C12_NoAttemptAfterStop ==
    [][(net_pc = "rc_attempt" /\ net_pc' = "rc_update") => should_reconnect]_vars

\* C13: the dispatch of a grid fragment whose isend is absent or not "1"
\* persists and broadcasts nothing and merges the fragment's fields into the
\* topic's session; the dispatch of a fragment with isend "1" leaves the
\* topic's session empty, whatever validation and the store did; the other
\* sessions are not touched.
C13_GridEndMarker ==
    [][(handled' # handled /\ Head(message_queue).topic \in DOMAIN TOPIC_MAPPING) =>
          LET msg    == Head(message_queue)
              fields == msg.payload.fields
          IN  /\ \A t \in SessionTopics \ {msg.topic} :
                   session_data'[t] = session_data[t]
              /\ IF "isend" \in DOMAIN fields /\ fields["isend"] = "1"
                 THEN session_data'[msg.topic] = EmptyDict
                 ELSE /\ db' = db
                      /\ broadcasts' = broadcasts
                      /\ session_data'[msg.topic] =
                           DictUpdate(session_data[msg.topic], fields)
      ]_vars

\* C13 witness: the final fragment persisted and broadcast the record that
\* holds the fields merged from the first fragment, and the session is empty
C13_Witness ==
    /\ Len(db["grid_rt_data"]) = 1
    /\ db["grid_rt_data"][1]["device_id"] = "M1"
    /\ db["grid_rt_data"][1]["v"] = "5"
    /\ Len(broadcasts) = 1
    /\ session_data["MQTT_RT_DATA"] = EmptyDict

\* C14: from an empty generator session, the dispatch of fragment A
\* (timestamp T, the device-id point "0") stores the fragment in the session
\* and persists nothing; the dispatch of fragment B (timestamp T, Y = 42)
\* that follows leaves the session empty and appends exactly one record
\* holding the device id and Y = 42 and exactly one broadcast holding both,
\* unless insert_one raises (then no record and no broadcast) or group_send
\* raises (then no broadcast).
C14_GeneratorTwoFragments ==
    [][(handled' # handled /\ Head(message_queue).topic = GEN_TOPIC
          /\ Head(message_queue).payload.data.items # <<>>
          /\ ~Head(message_queue).payload.data.items[1].empty) =>
          LET point   == Head(message_queue).payload.data.items[1]
              session == session_data[GEN_TOPIC]
              ids     == {point.point[k].id : k \in 1..Len(point.point)}
          IN  /\ (session = EmptyDict /\ ids = {"0"}) =>
                   /\ db' = db /\ broadcasts' = broadcasts
                   /\ DOMAIN session_data'[GEN_TOPIC] = {"timestamp", "0"}
                   /\ session_data'[GEN_TOPIC]["timestamp"] = point.tp
                   /\ session_data'[GEN_TOPIC]["0"] = point.point[1].val
              /\ (DOMAIN session = {"timestamp", "0"} /\ ids = {"Y"}
                    /\ session["timestamp"] = point.tp) =>
                   /\ session_data'[GEN_TOPIC] = EmptyDict
                   /\ \A n \in CollectionNames \ {GEN_COLLECTION} : db'[n] = db[n]
                   /\ \/ /\ db' = db
                         /\ broadcasts' = broadcasts
                      \/ /\ Len(db'[GEN_COLLECTION]) = Len(db[GEN_COLLECTION]) + 1
                         /\ SubSeq(db'[GEN_COLLECTION], 1, Len(db[GEN_COLLECTION]))
                               = db[GEN_COLLECTION]
                         /\ LET record == db'[GEN_COLLECTION][Len(db'[GEN_COLLECTION])]
                            IN  /\ {"device_id", "Y"} \subseteq DOMAIN record
                                /\ record["device_id"] = session["0"]
                                /\ record["Y"] = "42"
                         /\ \/ broadcasts' = broadcasts
                            \/ /\ Len(broadcasts') = Len(broadcasts) + 1
                               /\ SubSeq(broadcasts', 1, Len(broadcasts)) = broadcasts
                               /\ LET event == broadcasts'[Len(broadcasts')]
                                  IN  /\ event.topic = GEN_TOPIC
                                      /\ {"device_id", "Y"} \subseteq DOMAIN event.payload
                                      /\ event.payload["device_id"] = session["0"]
                                      /\ event.payload["Y"] = "42"
      ]_vars

\* C14 witness: fragments A and B were the only messages; there is one
\* record and one broadcast, both with the device id and Y = 42, and the
\* session is empty
C14_Witness ==
    /\ handled = 2 /\ received = 2
    /\ Len(db[GEN_COLLECTION]) = 1
    /\ db[GEN_COLLECTION][1]["device_id"] = "G7"
    /\ db[GEN_COLLECTION][1]["Y"] = "42"
    /\ Len(broadcasts) = 1
    /\ broadcasts[1].payload["device_id"] = "G7"
    /\ broadcasts[1].payload["Y"] = "42"
    /\ session_data[GEN_TOPIC] = EmptyDict

\* C15: the dispatch of a generator fragment whose timestamp differs from
\* the one stored in the session (none is stored in an empty session)
\* validates, persists and broadcasts nothing; afterwards the session holds
\* the fields it had and the fragment's fields, the fragment's values and
\* timestamp on the keys they share.
C15_DifferentTimestampsMerge ==
    [][(handled' # handled /\ Head(message_queue).topic = GEN_TOPIC
          /\ Head(message_queue).payload.data.items # <<>>
          /\ ~Head(message_queue).payload.data.items[1].empty
          /\ Head(message_queue).payload.data.items[1].tp \in GenTimestamps
          /\ ("timestamp" \in DOMAIN session_data[GEN_TOPIC] =>
                session_data[GEN_TOPIC]["timestamp"] #
                    Head(message_queue).payload.data.items[1].tp)) =>
          LET point   == Head(message_queue).payload.data.items[1]
              session == session_data[GEN_TOPIC]
              after   == session_data'[GEN_TOPIC]
              entries == 1..Len(point.point)
              ids     == {point.point[k].id : k \in entries}
          IN  /\ db' = db
              /\ broadcasts' = broadcasts
              /\ DOMAIN after = DOMAIN session \cup ids \cup {"timestamp"}
              /\ after["timestamp"] = point.tp
              /\ \A k \in entries :
                   (\A j \in entries : j > k => point.point[j].id # point.point[k].id)
                       => after[point.point[k].id] = point.point[k].val
              /\ \A key \in DOMAIN session \ (ids \cup {"timestamp"}) :
                   after[key] = session[key]
      ]_vars

\* C15 witness: after a fragment of reading "1000" and one of reading "2000"
\* nothing is stored and the session holds the fields of both under the
\* second timestamp
C15_Witness ==
    /\ handled = 2 /\ received = 2
    /\ db[GEN_COLLECTION] = <<>>
    /\ broadcasts = <<>>
    /\ DOMAIN session_data[GEN_TOPIC] = {"timestamp", "0", "Z"}
    /\ session_data[GEN_TOPIC]["timestamp"] = "2000"
    /\ session_data[GEN_TOPIC]["0"] = "G7"

\* C16: a broadcast is emitted only by the dispatch of a message, one at a
\* time and on the message's topic, and only together with the insert of
\* one document of that reading into the topic's collection; the reading
\* validates and the broadcast payload is its validated form.
C16_BroadcastOnlyStored ==
    [][broadcasts' # broadcasts =>
          /\ handled' # handled
          /\ Len(broadcasts') = Len(broadcasts) + 1
          /\ SubSeq(broadcasts', 1, Len(broadcasts)) = broadcasts
          /\ LET event == broadcasts'[Len(broadcasts')]
                 topic == Head(message_queue).topic
                 name  == IF topic \in DOMAIN TOPIC_MAPPING THEN TOPIC_MAPPING[topic]
                          ELSE IF topic = ENV_TOPIC THEN ENV_COLLECTION
                          ELSE GEN_COLLECTION
             IN  /\ event.topic = topic
                 /\ topic \in DOMAIN TOPIC_MAPPING \cup {ENV_TOPIC, GEN_TOPIC}
                 /\ \A n \in CollectionNames \ {name} : db'[n] = db[n]
                 /\ Len(db'[name]) = Len(db[name]) + 1
                 /\ SubSeq(db'[name], 1, Len(db[name])) = db[name]
                 /\ LET doc == db'[name][Len(db'[name])]
                    IN  IF topic = ENV_TOPIC
                        THEN EnvValid(doc) /\ event.payload = EnvDump(doc)
                        ELSE IF topic = GEN_TOPIC
                        THEN /\ GeneratorValid(event.payload)
                             /\ event.payload = GeneratorDump(event.payload)
                             /\ doc = FromFlatDictLeaves(event.payload)
                        ELSE GridValid(doc) /\ event.payload = GridDump(doc)
      ]_vars

\* C16 witness: of two environment readings dispatched, one was stored and
\* broadcast and the other, which does not validate, left no trace
C16_Witness ==
    /\ handled = 2 /\ received = 2
    /\ Len(db[ENV_COLLECTION]) = 1
    /\ Len(broadcasts) = 1
    /\ broadcasts[1].topic = ENV_TOPIC
    /\ broadcasts[1].payload["humidity"] = "1"
    /\ \A n \in CollectionNames \ {ENV_COLLECTION} : db[n] = <<>>

\* C17 as claimed: the document a handler inserts for a reading holds every
\* field of the validated record that is broadcast for it (for an
\* environment reading under the field's name or its alias).
C17_StoredHoldsValidated ==
    [][broadcasts' # broadcasts =>
          LET event == broadcasts'[Len(broadcasts')]
              topic == Head(message_queue).topic
              name  == IF topic \in DOMAIN TOPIC_MAPPING THEN TOPIC_MAPPING[topic]
                       ELSE IF topic = ENV_TOPIC THEN ENV_COLLECTION
                       ELSE GEN_COLLECTION
              doc   == db'[name][Len(db'[name])]
          IN  \A field \in DOMAIN event.payload :
                  \/ field \in DOMAIN doc
                  \/ \E f \in EnvFields : f[1] = field /\ f[2] \in DOMAIN doc
      ]_vars

\* C18 as claimed: a broadcast generator record for timestamp T holds only
\* fields that arrived in fragments carrying timestamp T (device_id being
\* the renamed point "0"); fields of an earlier reading with another
\* timestamp never appear in it.
C18_NoLeakAcrossTimestamps ==
    \A i \in 1..Len(broadcasts) :
        broadcasts[i].topic = GEN_TOPIC =>
            \A field \in DOMAIN broadcasts[i].payload \ {"timestamp"} :
                \E msg \in HandlerGenMsgs :
                    LET data == msg.payload.data
                    IN  /\ data.present
                        /\ data.items # <<>>
                        /\ ~data.items[1].empty
                        /\ data.items[1].tp = broadcasts[i].payload["timestamp"]
                        /\ (IF field = "device_id" THEN "0" ELSE field)
                               \in DOMAIN PointsDict(data.items[1].point)

\* C19 as claimed: a generator fragment with no first data-point entry (data
\* missing, data empty, or first entry empty) is ignored: the sessions, the
\* store and the broadcasts are the same after its dispatch as before.
C19_NoDataPointIgnored ==
    [][(/\ handled' # handled
        /\ Head(message_queue).topic = GEN_TOPIC
        /\ Head(message_queue).payload.isdict
        /\ LET data == Head(message_queue).payload.data
           IN  \/ ~data.present
               \/ data.items = <<>>
               \/ data.items[1].empty)
       => /\ session_data' = session_data
          /\ db' = db
          /\ broadcasts' = broadcasts
      ]_vars

\* C20: a reply that does not decode (the decoded sequence is empty) leaves
\* the connection open and waiting for the next heartbeat, leaves the
\* connection's session as it was and does not move the shared cycle, so the
\* next dispatch takes the cycle's next position.
C20_UndecodableReplyKeepsSession ==
    [][\A c \in Conns :
          (trips'[c] = trips[c] + 1 /\ oks'[c] = oks[c]) =>
              /\ pc'[c] = "recv"
              /\ accumulated_data'[c] = accumulated_data[c]
              /\ cycle_pos' = cycle_pos
              /\ collections' = collections
      ]_vars

C20_Witness ==
    \E c \in Conns :
        /\ \A d \in Conns \ {c} : pc[d] = "none"
        /\ pulls = <<0, 1>>
        /\ trips[c] = 2 /\ oks[c] = 1
        /\ pc[c] = "recv"
        /\ DOMAIN accumulated_data[c] = {"response_0"}
        /\ cycle_pos = 2

\* C21: a dispatch of a generator fragment that carries the session's stored
\* timestamp (a completion attempt) always leaves the generator session
\* empty; when the merged record does not validate nothing is inserted and
\* nothing is broadcast, and when nothing is inserted (validation failed or
\* insert_one raised) nothing is broadcast.
C21_SessionEmptyAfterAttempt ==
    [][(/\ handled' # handled
        /\ Head(message_queue).topic = GEN_TOPIC
        /\ Head(message_queue).payload.isdict
        /\ Head(message_queue).payload.data.present
        /\ Head(message_queue).payload.data.items # <<>>
        /\ ~Head(message_queue).payload.data.items[1].empty
        /\ DictGetNone(session_data[GEN_TOPIC], "timestamp")
               = Head(message_queue).payload.data.items[1].tp)
       => LET data_point == Head(message_queue).payload.data.items[1]
              doc == DictUpdate([k \in {"timestamp"} |-> data_point.tp],
                                PointsDict(data_point.point))
              merged == GeneratorMerge(session_data[GEN_TOPIC], doc)
          IN  /\ session_data'[GEN_TOPIC] = EmptyDict
              /\ \A t \in SessionTopics \ {GEN_TOPIC} :
                     session_data'[t] = session_data[t]
              /\ ~GeneratorValid(merged) => (db' = db /\ broadcasts' = broadcasts)
              /\ db' = db => broadcasts' = broadcasts
              /\ last_attempt' # "none"
      ]_vars

\* C21 witness: the second of two fragments with one timestamp and no point
\* "0" was dispatched: the merged record did not validate, the session is
\* empty, nothing was stored and nothing was broadcast
C21_Witness ==
    /\ last_attempt = "invalid"
    /\ handled = 2
    /\ session_data[GEN_TOPIC] = EmptyDict
    /\ db[GEN_COLLECTION] = <<>>
    /\ broadcasts = <<>>

\* C22 as claimed: with the connections sharing the response cycle, every
\* connection whose client keeps sending heartbeats and keeps answering the
\* frames with decodable replies (it is again and again at the heartbeat
\* read and again and again at the reply read) eventually has a reading
\* persisted, however the connections interleave.
C22_EveryConnectionPersists ==
    \A c \in Conns :
        ([]<>(pc[c] = "recv") /\ []<>(pc[c] = "reply")) => <>Stored(c)

\* C23 as claimed: persistence is all-or-nothing across the three
\* collections: whenever no _store_data call holds the store lock the three
\* collections hold the same readings, also after a call in which an insert
\* raised; and every insert writes the document of the call that holds the
\* lock, so the inserts of two readings are never interleaved.
C23_AllOrNothing ==
    [][/\ mongo_lock' = 0 =>
            /\ collections'[1] = collections'[2]
            /\ collections'[2] = collections'[3]
       /\ collections' # collections =>
            /\ mongo_lock \in Conns
            /\ \E n \in 1..3 :
                 /\ collections'[n] = Append(collections[n], document[mongo_lock])
                 /\ \A k \in (1..3) \ {n} : collections'[k] = collections[k]
      ]_vars

=============================================================================
